---------------------------- MODULE Spec2Model ----------------------------
(***************************************************************************)
(* The temporal cross-validation splitters of mlt:                         *)
(*   PurgedWalkForwardCV  (mlt/cross_validation_splitters/timeseries_cv.py)*)
(*   PredictionWindowManager (.../prediction_window_manager.py)            *)
(* A splitter is constructed once, split() creates a generator over one    *)
(* dataset, and every resumption of the generator yields a pair, raises or *)
(* finishes.  numpy arrays are sequences of 0-based row positions; the     *)
(* timestamps are integers.                                                *)
(***************************************************************************)
EXTENDS Integers, Sequences, FiniteSets, TLC

VARIABLES cv, call, X, gen, out, err, prev, ret

vars == <<cv, call, X, gen, out, err, prev, ret>>

---------------------------------------------------------------------------
(* Bounds of the model *)

MaxRows == 4

MaxShortRows == 2

MaxTime == 2

MaxLag == 2

MaxSplits == 4

MaxGap == 1

MaxInit == 3

MaxStep == 2

MaxRoll == 2
\* rows of the data handed to a direct call of purge or embargo
MaxPolicyRows == 3
\* largest embargo_td of a direct call of embargo
MaxEmbargo == 1

---------------------------------------------------------------------------
(* Python and numpy helpers *)

Min2(a, b) == IF a <= b THEN a ELSE b

Max2(a, b) == IF a >= b THEN a ELSE b

SeqRange(s) == {s[k] : k \in DOMAIN s}

RECURSIVE SortedSeq(_)
SortedSeq(S) ==
  IF S = {} THEN <<>>
  ELSE LET m == CHOOSE a \in S : \A b \in S : a <= b
       IN  <<m>> \o SortedSeq(S \ {m})

\* np.arange(n): the positions 0 .. n-1
arange(n) == [k \in 1..n |-> k - 1]

\* a[lo:hi] of Python, for integer lo and hi (negative ones count from the end)
SliceIndex(k, n) == IF k < 0 THEN Max2(k + n, 0) ELSE Min2(k, n)

PySlice(a, lo, hi) ==
  LET n == Len(a)
      l == SliceIndex(lo, n)
      h == SliceIndex(hi, n)
  IN  IF l >= h THEN <<>> ELSE [k \in 1..(h - l) |-> a[l + k]]

\* a[lo:] of Python (the stop is None)
PySliceFrom(a, lo) == PySlice(a, lo, Len(a))

\* np.intersect1d: the sorted common values
intersect1d(a, b) == SortedSeq(SeqRange(a) \cap SeqRange(b))

\* strictly increasing instead of non-decreasing
is_monotonic_increasing_Strict(col) ==
  \A k \in 1..(Len(col) - 1) : col[k] < col[k + 1]

\* pandas Series.is_monotonic_increasing: non-decreasing by row position
is_monotonic_increasing(col) ==
  \A k \in 1..(Len(col) - 1) : col[k] <= col[k + 1]

NoError == [type |-> "none", at |-> "none"]

ValueErrorAt(where) == [type |-> "ValueError", at |-> where]

IndexErrorAt(where) == [type |-> "IndexError", at |-> where]

---------------------------------------------------------------------------
(* Datasets: a table with a prediction-time and an evaluation-time column *)

RECURSIVE SeqsUpTo(_, _)
SeqsUpTo(n, S) ==
  IF n = 0 THEN {<<>>}
  ELSE LET shorter == SeqsUpTo(n - 1, S)
       IN  shorter \cup {Append(s, v) : s \in {t \in shorter : Len(t) = n - 1}, v \in S}

TimeValues == 0..MaxTime

\* the unsorted column of the monotonicity scenario
P7Column == <<5, 3, 4>>

\* every column of at most MaxShortRows rows, sorted or not, every
\* non-decreasing column of at most MaxRows rows, and the unsorted example
TimeColumns ==
  {c \in SeqsUpTo(MaxRows, TimeValues) :
     /\ Len(c) >= 1
     /\ Len(c) <= MaxShortRows \/ \A k \in 1..(Len(c) - 1) : c[k] <= c[k + 1]}
  \cup {P7Column}

\* evaluation_time = prediction_time + lag; a late row resolves MaxLag later
Lagged(c, late) == [k \in DOMAIN c |-> IF k \in late THEN c[k] + MaxLag ELSE c[k]]

\* the late rows are any rows of a non-decreasing column; a column that is
\* not sorted is rejected before its evaluation times are read
Datasets ==
  {[pred |-> c, eval |-> Lagged(c, late)] :
     c \in {d \in TimeColumns : \A k \in 1..(Len(d) - 1) : d[k] <= d[k + 1]},
     late \in SUBSET (1..MaxRows)}
  \cup {[pred |-> c, eval |-> c] : c \in TimeColumns}

NoData == [pred |-> <<>>, eval |-> <<>>]

NumRows(data) == Len(data.pred)

---------------------------------------------------------------------------
(* PurgedWalkForwardCV: construction *)

WF == "PurgedWalkForwardCV"

NoCV == [kind |-> "none"]

\* an optional integer argument: <<>> is None, <<v>> is the integer v
None == <<>>

Some(v) == <<v>>

\* BaseTimeSeriesCV.__init__: the check of n_splits
BaseInitRaises(a) == a.n_splits <= 1

\* max_train_splits after its default is applied
MaxTrainDefault(a) ==
  IF a.max_train_splits = None THEN a.n_splits - a.n_test_splits
  ELSE a.max_train_splits[1]

NTestRaises(a) == a.n_test_splits <= 0 \/ a.n_test_splits >= a.n_splits - 1

\* the upper check of min_train_splits with > for >=
MinTrainRaises_Off(a) ==
  a.min_train_splits <= 0 \/ a.min_train_splits > a.n_splits - a.n_test_splits

MinTrainRaises(a) ==
  a.min_train_splits <= 0 \/ a.min_train_splits >= a.n_splits - a.n_test_splits

MaxTrainRaises(a) ==
  \/ MaxTrainDefault(a) <= 0
  \/ MaxTrainDefault(a) > a.n_splits - a.n_test_splits
  \/ a.min_train_splits > MaxTrainDefault(a)

\* PurgedWalkForwardCV.__init__: the checks in the order of the code; the
\* first one that fails raises ValueError and no instance is bound
WFInit(a) ==
  IF BaseInitRaises(a) THEN [cv |-> NoCV, err |-> ValueErrorAt("n_splits")]
  ELSE IF NTestRaises(a) THEN [cv |-> NoCV, err |-> ValueErrorAt("n_test_splits")]
  ELSE IF MinTrainRaises(a) THEN [cv |-> NoCV, err |-> ValueErrorAt("min_train_splits")]
  ELSE IF MaxTrainRaises(a) THEN [cv |-> NoCV, err |-> ValueErrorAt("max_train_splits")]
  ELSE [cv |-> [kind |-> WF,
                n_splits |-> a.n_splits,
                n_test_splits |-> a.n_test_splits,
                min_train_splits |-> a.min_train_splits,
                max_train_splits |-> MaxTrainDefault(a),
                split_by_time |-> a.split_by_time],
        err |-> NoError]

get_n_splits(self) == self.n_splits - self.n_test_splits - self.min_train_splits + 1

---------------------------------------------------------------------------
(* PurgedWalkForwardCV: fold bounds, purge and the split generator *)

RECURSIVE cumsum(_)
cumsum(sizes) ==
  IF sizes = <<>> THEN <<>>
  ELSE LET head == cumsum(SubSeq(sizes, 1, Len(sizes) - 1))
       IN  Append(head, (IF head = <<>> THEN 0 ELSE head[Len(head)]) + sizes[Len(sizes)])

\* an array_split whose last len % n sub-arrays are the longer ones
array_split_RemainderLast(ary, n) ==
  LET each == Len(ary) \div n
      extras == Len(ary) % n
      section_sizes == [k \in 1..(n + 1) |-> IF k = 1 THEN 0
                                             ELSE IF k - 1 > n - extras THEN each + 1
                                             ELSE each]
      div_points == cumsum(section_sizes)
  IN  [k \in 1..n |-> PySlice(ary, div_points[k], div_points[k + 1])]

\* np.array_split(ary, n): n consecutive sub-arrays, the first len % n of them
\* one element longer
array_split(ary, n) ==
  LET each == Len(ary) \div n
      extras == Len(ary) % n
      section_sizes == [k \in 1..(n + 1) |-> IF k = 1 THEN 0
                                             ELSE IF k - 1 <= extras THEN each + 1
                                             ELSE each]
      div_points == cumsum(section_sizes)
  IN  [k \in 1..n |-> PySlice(ary, div_points[k], div_points[k + 1])]

\* searchsorted with side = 'right': the number of rows at or before t
searchsorted_Right(col, num, den) == Cardinality({k \in DOMAIN col : den * col[k] <= num})

\* pred_times.searchsorted(t) for t = num / den: the number of rows before t
searchsorted(col, num, den) == Cardinality({k \in DOMAIN col : den * col[k] < num})

ColMax(col) == CHOOSE v \in SeqRange(col) : \A w \in SeqRange(col) : w <= v

ColMin(col) == CHOOSE v \in SeqRange(col) : \A w \in SeqRange(col) : v <= w

\* _compute_fold_bounds, time mode: bound n is the first row at or after
\* pred_times[0] + n * (max - min) / n_splits
TimeFoldBounds(self, data) ==
  LET full_time_span == ColMax(data.pred) - ColMin(data.pred)
  IN  [k \in 1..self.n_splits |->
         searchsorted(data.pred,
                      self.n_splits * data.pred[1] + (k - 1) * full_time_span,
                      self.n_splits)]

\* _compute_fold_bounds, position mode: fold[0] of every fold of array_split
IndexFolds(self, data) == array_split(arange(NumRows(data)), self.n_splits)

\* fold[0] of an empty fold raises IndexError
FoldBoundsRaises(self, data) ==
  ~self.split_by_time /\ \E k \in 1..self.n_splits : IndexFolds(self, data)[k] = <<>>

compute_fold_bounds(self, data) ==
  IF self.split_by_time THEN TimeFoldBounds(self, data)
  ELSE [k \in 1..self.n_splits |-> IndexFolds(self, data)[k][1]]

\* purge with the rows after the test fold taken from all rows instead of
\* from the training rows
purge_AfterFromAll(all_indices, train_indices, test_fold_start, test_fold_end, pred_times, eval_times) ==
  LET time_test_fold_start == pred_times[test_fold_start + 1]
      resolved == SortedSeq({all_indices[k] : k \in
                     {j \in DOMAIN all_indices : eval_times[j] < time_test_fold_start}})
      train_indices_1 == intersect1d(train_indices, resolved)
      after == PySliceFrom(all_indices, test_fold_end)
      train_indices_2 ==
        IF test_fold_end < Len(all_indices)
        THEN LET eval_time_test_end == eval_times[test_fold_end + 1]
                 later == SortedSeq({all_indices[k] : k \in
                            {j \in DOMAIN all_indices : pred_times[j] >= eval_time_test_end}})
             IN  intersect1d(after, later)
        ELSE after
  IN  train_indices_1 \o train_indices_2

\* purge keeping the rows that resolve exactly at the test fold's first
\* prediction time (<= for <)
purge_KeepsResolvedAtStart(all_indices, train_indices, test_fold_start, test_fold_end, pred_times, eval_times) ==
  LET time_test_fold_start == pred_times[test_fold_start + 1]
      resolved == SortedSeq({all_indices[k] : k \in
                     {j \in DOMAIN all_indices : eval_times[j] <= time_test_fold_start}})
  IN  intersect1d(train_indices, resolved)

\* purge measuring resolution against the prediction time of the row before
\* the test fold's first row
purge_StartOffByOne(all_indices, train_indices, test_fold_start, test_fold_end, pred_times, eval_times) ==
  LET time_test_fold_start == pred_times[Max2(test_fold_start, 1)]
      resolved == SortedSeq({all_indices[k] : k \in
                     {j \in DOMAIN all_indices : eval_times[j] < time_test_fold_start}})
  IN  intersect1d(train_indices, resolved)
        \o intersect1d(intersect1d(train_indices, PySliceFrom(all_indices, test_fold_end)),
                       SortedSeq({all_indices[k] : k \in
                          {j \in DOMAIN all_indices :
                             test_fold_end < Len(all_indices)
                               => pred_times[j] >= eval_times[test_fold_end + 1]}}))

\* purge keeping every training position from test_fold_end on, whatever
\* its prediction time
purge_NoLaterFilter(all_indices, train_indices, test_fold_start, test_fold_end, pred_times, eval_times) ==
  LET time_test_fold_start == pred_times[test_fold_start + 1]
      resolved == SortedSeq({all_indices[k] : k \in
                     {j \in DOMAIN all_indices : eval_times[j] < time_test_fold_start}})
  IN  intersect1d(train_indices, resolved)
        \o intersect1d(train_indices, PySliceFrom(all_indices, test_fold_end))

\* BaseTimeSeriesCV.purge; test_fold_start and test_fold_end are positions
purge(all_indices, train_indices, test_fold_start, test_fold_end, pred_times, eval_times) ==
  LET time_test_fold_start == pred_times[test_fold_start + 1]
      resolved == SortedSeq({all_indices[k] : k \in
                     {j \in DOMAIN all_indices : eval_times[j] < time_test_fold_start}})
      train_indices_1 == intersect1d(train_indices, resolved)
      after == intersect1d(train_indices, PySliceFrom(all_indices, test_fold_end))
      train_indices_2 ==
        IF test_fold_end < Len(all_indices)
        THEN LET eval_time_test_end == eval_times[test_fold_end + 1]
                 later == SortedSeq({all_indices[k] : k \in
                            {j \in DOMAIN all_indices : pred_times[j] >= eval_time_test_end}})
             IN  intersect1d(after, later)
        ELSE after
  IN  train_indices_1 \o train_indices_2

\* embargo without the test min_train_index < len(all_indices): the allowed
\* positions are always applied
embargo_AlwaysFilters(embargo_td, all_indices, train_indices, test_indices, test_fold_end, pred_times, eval_times) ==
  LET before_end == {v \in SeqRange(test_indices) : v <= test_fold_end}
  IN  IF before_end = {}
      THEN [raises |-> TRUE, value |-> <<>>]
      ELSE LET last_test_eval_time == eval_times[ColMax(SortedSeq(before_end)) + 1]
               min_train_index ==
                 Cardinality({j \in DOMAIN pred_times :
                                pred_times[j] <= last_test_eval_time + embargo_td})
               allowed_indices == PySlice(all_indices, 0, test_fold_end)
                                    \o PySliceFrom(all_indices, min_train_index)
           IN  [raises |-> FALSE, value |-> intersect1d(train_indices, allowed_indices)]

\* BaseTimeSeriesCV.embargo, self.embargo_td passed as embargo_td; max() of
\* an empty selection of test indices raises ValueError
embargo(embargo_td, all_indices, train_indices, test_indices, test_fold_end, pred_times, eval_times) ==
  LET before_end == {v \in SeqRange(test_indices) : v <= test_fold_end}
  IN  IF before_end = {}
      THEN [raises |-> TRUE, value |-> <<>>]
      ELSE LET last_test_eval_time == eval_times[ColMax(SortedSeq(before_end)) + 1]
               min_train_index ==
                 Cardinality({j \in DOMAIN pred_times :
                                pred_times[j] <= last_test_eval_time + embargo_td})
               allowed_indices == PySlice(all_indices, 0, test_fold_end)
                                    \o PySliceFrom(all_indices, min_train_index)
           IN  [raises |-> FALSE,
                value |-> IF min_train_index < Len(all_indices)
                          THEN intersect1d(train_indices, allowed_indices)
                          ELSE train_indices]

\* a training window that always starts at the first fold
TrainWindow_NoCap(self, fold_bounds, indices, i) ==
  PySlice(indices, fold_bounds[1], fold_bounds[i + 1])

\* the training window of iteration i before purge
TrainWindow(self, fold_bounds, indices, i) ==
  LET train_start == fold_bounds[Max2(0, i - self.max_train_splits) + 1]
      train_end == fold_bounds[i + 1]
  IN  PySlice(indices, train_start, train_end)

\* a test window whose last split stops one row before the end of the data
TestWindow_DropsLastRow(self, fold_bounds, indices, i) ==
  IF i + self.n_test_splits < self.n_splits
  THEN PySlice(indices, fold_bounds[i + 1], fold_bounds[i + self.n_test_splits + 1])
  ELSE PySlice(indices, fold_bounds[i + 1], Len(indices) - 1)

\* the test window of iteration i
TestWindow(self, fold_bounds, indices, i) ==
  IF i + self.n_test_splits < self.n_splits
  THEN PySlice(indices, fold_bounds[i + 1], fold_bounds[i + self.n_test_splits + 1])
  ELSE PySliceFrom(indices, fold_bounds[i + 1])

\* the loop's range without the + 1 of its stop
LastIteration_Short(self) == self.n_splits - self.n_test_splits - 1

\* the last value of the loop's range
LastIteration(self) == self.n_splits - self.n_test_splits

\* one iteration of the loop of _split: test_indices.min() of an empty test
\* window raises ValueError, otherwise the pair is yielded
SplitIteration(self, data, fold_bounds, i) ==
  LET indices == arange(NumRows(data))
      train_indices == TrainWindow(self, fold_bounds, indices, i)
      test_indices == TestWindow(self, fold_bounds, indices, i)
  IN  IF test_indices = <<>>
      THEN [raises |-> TRUE, pair |-> <<>>]
      ELSE [raises |-> FALSE,
            pair |-> [train |-> purge(indices, train_indices,
                                      ColMin(test_indices), ColMax(test_indices),
                                      data.pred, data.eval),
                      test |-> test_indices]]

\* BaseTimeSeriesCV._check_split_arguments, labels not given
check_split_arguments(data) == is_monotonic_increasing(data.pred)

---------------------------------------------------------------------------
(* The state machine: construction, split() and the generator's resumptions *)

NoGen == [pc |-> "none", i |-> 0, fold_bounds |-> <<>>]

NoCall == [op |-> "none"]

\* no earlier complete iteration of split() has been recorded
NoPrev == [taken |-> FALSE, out |-> <<>>]

\* no direct call of embargo or purge has returned
NoReturn == [returned |-> FALSE, value |-> <<>>]

Init ==
  /\ cv = NoCV
  /\ call = NoCall
  /\ X = NoData
  /\ gen = NoGen
  /\ out = <<>>
  /\ err = NoError
  /\ prev = NoPrev
  /\ ret = NoReturn

\* the end-to-end scenario: 100 rows, prediction_time = evaluation_time = row index
E2EData == [pred |-> arange(100), eval |-> arange(100)]

E2EArgs ==
  [n_splits |-> 10, n_test_splits |-> 1, min_train_splits |-> 2,
   max_train_splits |-> None, split_by_time |-> FALSE]

\* n_test_splits = n_splits = 5
P2Args ==
  [n_splits |-> 5, n_test_splits |-> 5, min_train_splits |-> 2,
   max_train_splits |-> None, split_by_time |-> FALSE]

\* the rolling-cap scenario: at most 4 training folds out of 10
P5Args ==
  [n_splits |-> 10, n_test_splits |-> 1, min_train_splits |-> 2,
   max_train_splits |-> Some(4), split_by_time |-> FALSE]

WFArgs ==
  [n_splits : 0..MaxSplits, n_test_splits : 0..MaxSplits, min_train_splits : 0..MaxSplits,
   max_train_splits : {None} \cup {Some(v) : v \in 0..MaxSplits}, split_by_time : BOOLEAN]
  \cup {E2EArgs, P2Args, P5Args}

\* four rows whose prediction times span 0 .. 4, the first row resolved
\* after the second row's prediction time; with n_splits = 4 the time-mode
\* fold bounds are 0, 1, 2, 2
PurgedThenEmptyData == [pred |-> <<0, 1, 4, 4>>, eval |-> <<2, 1, 4, 4>>]

WFDatasets == Datasets \cup {E2EData, PurgedThenEmptyData}

\* PurgedWalkForwardCV(...)
ConstructWF ==
  /\ call = NoCall /\ cv = NoCV /\ err = NoError
  /\ \E a \in WFArgs :
       /\ call' = [op |-> "PurgedWalkForwardCV", args |-> a]
       /\ cv' = WFInit(a).cv
       /\ err' = WFInit(a).err
  /\ UNCHANGED <<X, gen, out, prev, ret>>

\* cv.split(X): the generator is created and nothing of its body has run
SplitWF ==
  /\ cv.kind = WF /\ gen.pc = "none"
  /\ \E data \in WFDatasets : X' = data
  /\ call' = [op |-> "split"]
  /\ gen' = [NoGen EXCEPT !.pc = "created"]
  /\ out' = <<>>
  /\ UNCHANGED <<cv, err, prev, ret>>

\* the loop of _split entered at iteration i
WFRunFrom(self, data, fold_bounds, i) ==
  IF i > LastIteration(self)
  THEN [gen |-> [pc |-> "done", i |-> i, fold_bounds |-> fold_bounds],
        yield |-> <<>>, err |-> NoError]
  ELSE LET it == SplitIteration(self, data, fold_bounds, i)
       IN  IF it.raises
           THEN [gen |-> [pc |-> "raised", i |-> i, fold_bounds |-> fold_bounds],
                 yield |-> <<>>, err |-> ValueErrorAt("_split")]
           ELSE [gen |-> [pc |-> "suspended", i |-> i, fold_bounds |-> fold_bounds],
                 yield |-> <<it.pair>>, err |-> NoError]

\* one resumption of the generator of BaseTimeSeriesCV.split
WFResume(self, data, g) ==
  IF g.pc = "created"
  THEN IF ~check_split_arguments(data)
       THEN [gen |-> [g EXCEPT !.pc = "raised"], yield |-> <<>>,
             err |-> ValueErrorAt("_check_split_arguments")]
       ELSE IF FoldBoundsRaises(self, data)
       THEN [gen |-> [g EXCEPT !.pc = "raised"], yield |-> <<>>,
             err |-> IndexErrorAt("_compute_fold_bounds")]
       ELSE WFRunFrom(self, data, compute_fold_bounds(self, data), self.min_train_splits)
  ELSE WFRunFrom(self, data, g.fold_bounds, g.i + 1)

\* next(generator)
NextWF ==
  /\ cv.kind = WF /\ gen.pc \in {"created", "suspended"}
  /\ LET r == WFResume(cv, X, gen)
     IN  /\ gen' = r.gen
         /\ out' = out \o r.yield
         /\ err' = r.err
  /\ call' = [op |-> "next"]
  /\ UNCHANGED <<cv, X, prev, ret>>

---------------------------------------------------------------------------
(* PredictionWindowManager *)

PWM == "PredictionWindowManager"

\* frequency_map of scale_sizes
FrequencyMap == [daily |-> 1, weekly |-> 5, monthly |-> 22]

\* int(np.ceil(x / denominator)) for a positive denominator
CeilDiv(x, denominator) == -((-x) \div denominator)

\* scale_sizes: raises for a frequency that is no key of frequency_map,
\* otherwise rescales the three sizes set so far
ScaleRaises(self) == self.training_frequency \notin DOMAIN FrequencyMap

\* a scaling that divides rolling_window_size as well
scale_sizes_AlsoRolling(self) ==
  LET denominator == FrequencyMap[self.training_frequency]
  IN  [self EXCEPT
         !.gap_size = CeilDiv(self.gap_size, denominator),
         !.initial_train_size = CeilDiv(self.initial_train_size, denominator),
         !.num_bars_between_training = CeilDiv(self.num_bars_between_training, denominator),
         !.rolling_window_size = CeilDiv(self.rolling_window_size, denominator)]

\* the scaling applied twice
scale_sizes_Twice(self) ==
  LET denominator == FrequencyMap[self.training_frequency]
      twice(x) == CeilDiv(CeilDiv(x, denominator), denominator)
  IN  [self EXCEPT
         !.gap_size = twice(self.gap_size),
         !.initial_train_size = twice(self.initial_train_size),
         !.num_bars_between_training = twice(self.num_bars_between_training)]

scale_sizes(self) ==
  LET denominator == FrequencyMap[self.training_frequency]
  IN  [self EXCEPT
         !.gap_size = CeilDiv(self.gap_size, denominator),
         !.initial_train_size = CeilDiv(self.initial_train_size, denominator),
         !.num_bars_between_training = CeilDiv(self.num_bars_between_training, denominator)]

\* a constructor that stores its arguments and never calls scale_sizes
PWMInit_NoScale(a) ==
  [cv |-> [kind |-> PWM,
           gap_size |-> a.gap_size,
           initial_train_size |-> a.initial_train_size,
           training_frequency |-> a.training_frequency,
           num_bars_between_training |-> a.num_bars_between_training,
           time_column_name |-> a.time_column_name,
           rolling_window_size |-> a.rolling_window_size],
   err |-> NoError]

\* PredictionWindowManager.__init__
PWMInit(a) ==
  LET set == [kind |-> PWM,
              gap_size |-> a.gap_size,
              initial_train_size |-> a.initial_train_size,
              training_frequency |-> a.training_frequency,
              num_bars_between_training |-> a.num_bars_between_training,
              time_column_name |-> a.time_column_name,
              rolling_window_size |-> a.rolling_window_size]
  IN  IF ScaleRaises(set)
      THEN [cv |-> NoCV, err |-> ValueErrorAt("scale_sizes")]
      ELSE [cv |-> scale_sizes(set), err |-> NoError]

Column(data, name) == IF name = "pred" THEN data.pred ELSE data.eval

\* Series.unique(): the distinct values in the order of their first row
RECURSIVE unique(_)
unique(col) ==
  IF col = <<>> THEN <<>>
  ELSE LET head == unique(SubSeq(col, 1, Len(col) - 1))
           last == col[Len(col)]
       IN  IF last \in SeqRange(head) THEN head ELSE Append(head, last)

\* len(range(start, stop, step)) for a step other than 0
RangeLen(start, stop, step) ==
  IF step > 0
  THEN (IF start >= stop THEN 0 ELSE ((stop - start - 1) \div step) + 1)
  ELSE (IF start <= stop THEN 0 ELSE ((start - stop - 1) \div (-step)) + 1)

\* range(initial_train_size + gap_size, num_prediction_times, num_bars_between_training)
prediction_window_starts(self, num_prediction_times) ==
  LET start == self.initial_train_size + self.gap_size
      step == self.num_bars_between_training
  IN  [k \in 1..RangeLen(start, num_prediction_times, step) |-> start + (k - 1) * step]

\* a[positions] of numpy for an array of positions
Take(a, positions) == [k \in DOMAIN positions |-> a[positions[k] + 1]]

\* only the first row of each of the timestamps
RowsAt_FirstOnly(index, col, times) ==
  Take(index, SortedSeq({k - 1 : k \in {j \in DOMAIN col :
                                         /\ col[j] \in SeqRange(times)
                                         /\ \A h \in 1..(j - 1) : col[h] # col[j]}}))

\* data.loc[data[time_column_name].isin(times)].index: the index labels, in
\* row order, of the rows whose timestamp is one of times
RowsAt(index, col, times) ==
  Take(index, SortedSeq({k - 1 : k \in {j \in DOMAIN col : col[j] \in SeqRange(times)}}))

\* the training timestamps of the window that starts at prediction_start
TrainTimes(self, prediction_times, prediction_start) ==
  LET indices == arange(Len(prediction_times))
      train_end == prediction_start - self.gap_size
  IN  IF self.rolling_window_size # 0
      THEN Take(prediction_times,
                PySlice(indices, Max2(train_end - self.rolling_window_size, 0), train_end))
      ELSE Take(prediction_times, PySlice(indices, 0, train_end))

\* a test window of one timestamp, whatever num_bars_between_training is
TestTimes_OneBar(self, prediction_times, prediction_start) ==
  Take(prediction_times,
       PySlice(arange(Len(prediction_times)), prediction_start, prediction_start + 1))

\* the test timestamps of the window that starts at prediction_start
TestTimes(self, prediction_times, prediction_start) ==
  LET indices == arange(Len(prediction_times))
  IN  Take(prediction_times,
           PySlice(indices, prediction_start,
                   prediction_start + self.num_bars_between_training))

\* the body of the loop of split for one prediction_start
PWMPair(self, data, prediction_start) ==
  LET col == Column(data, self.time_column_name)
      prediction_times == unique(col)
  IN  [train |-> RowsAt(data.index, col, TrainTimes(self, prediction_times, prediction_start)),
       test |-> RowsAt(data.index, col, TestTimes(self, prediction_times, prediction_start))]

\* the loop of split entered at its k-th window (k counts from 1)
PWMRunFrom(self, data, k) ==
  LET starts == prediction_window_starts(self, Len(unique(Column(data, self.time_column_name))))
  IN  IF k > Len(starts)
      THEN [gen |-> [pc |-> "done", i |-> k, fold_bounds |-> <<>>],
            yield |-> <<>>, err |-> NoError]
      ELSE [gen |-> [pc |-> "suspended", i |-> k, fold_bounds |-> <<>>],
            yield |-> <<PWMPair(self, data, starts[k])>>, err |-> NoError]

\* one resumption of the generator of PredictionWindowManager.split
PWMResume(self, data, g) ==
  LET col == Column(data, self.time_column_name)
      num_prediction_times == Len(unique(col))
  IN  IF g.pc = "created"
      THEN IF ~is_monotonic_increasing(col)
           THEN [gen |-> [g EXCEPT !.pc = "raised"], yield |-> <<>>,
                 err |-> ValueErrorAt("monotonic")]
           ELSE IF self.initial_train_size > num_prediction_times
           THEN [gen |-> [g EXCEPT !.pc = "raised"], yield |-> <<>>,
                 err |-> ValueErrorAt("initial_train_size")]
           ELSE IF self.num_bars_between_training = 0
           THEN [gen |-> [g EXCEPT !.pc = "raised"], yield |-> <<>>,
                 err |-> ValueErrorAt("range")]
           ELSE PWMRunFrom(self, data, 1)
      ELSE PWMRunFrom(self, data, g.i + 1)

\* the frequency-scaling scenario
P6Args ==
  [gap_size |-> 22, initial_train_size |-> 220, training_frequency |-> "monthly",
   num_bars_between_training |-> 22, time_column_name |-> "pred",
   rolling_window_size |-> 0]

\* weekly sizes, two of them no multiples of the divisor
WeeklyArgs ==
  [gap_size |-> 6, initial_train_size |-> 9, training_frequency |-> "weekly",
   num_bars_between_training |-> 5, time_column_name |-> "pred",
   rolling_window_size |-> 1]

PWMArgs ==
  [gap_size : -1..MaxGap, initial_train_size : 0..MaxInit,
   training_frequency : {"daily", "weekly", "monthly", "yearly"},
   num_bars_between_training : 0..MaxStep, time_column_name : {"pred"},
   rolling_window_size : 0..MaxRoll]
  \cup {P6Args, WeeklyArgs}

\* the row index of a frame of n rows: the default RangeIndex 0 .. n-1, or
\* the labels 1 .. n of a frame whose first row was dropped
RowIndexes(n) == {arange(n), [k \in 1..n |-> k]}

PWMDatasets ==
  UNION {{[pred |-> c, eval |-> c, index |-> ix] : ix \in RowIndexes(Len(c))} : c \in TimeColumns}

\* PredictionWindowManager(...)
\* a second split(X) on the same instance and the same dataset, once the
\* first generator is exhausted; what the first one yielded is kept aside
SplitWFAgain ==
  /\ cv.kind = WF /\ gen.pc = "done" /\ ~prev.taken
  /\ prev' = [taken |-> TRUE, out |-> out]
  /\ call' = [op |-> "split"]
  /\ gen' = [NoGen EXCEPT !.pc = "created"]
  /\ out' = <<>>
  /\ UNCHANGED <<cv, X, err, ret>>

ConstructPWM ==
  /\ call = NoCall /\ cv = NoCV /\ err = NoError
  /\ \E a \in PWMArgs :
       /\ call' = [op |-> "PredictionWindowManager", args |-> a]
       /\ cv' = PWMInit(a).cv
       /\ err' = PWMInit(a).err
  /\ UNCHANGED <<X, gen, out, prev, ret>>

\* manager.split(data): the generator is created and nothing of its body has run
SplitPWM ==
  /\ cv.kind = PWM /\ gen.pc = "none"
  /\ \E data \in PWMDatasets : X' = data
  /\ call' = [op |-> "split"]
  /\ gen' = [NoGen EXCEPT !.pc = "created"]
  /\ out' = <<>>
  /\ UNCHANGED <<cv, err, prev, ret>>

\* next(generator)
\* a split whose every resumption applies scale_sizes to the instance again
NextPWM_Rescales ==
  /\ cv.kind = PWM /\ gen.pc \in {"created", "suspended"}
  /\ LET r == PWMResume(cv, X, gen)
     IN  /\ gen' = r.gen
         /\ out' = out \o r.yield
         /\ err' = r.err
  /\ call' = [op |-> "next"]
  /\ cv' = scale_sizes(cv)
  /\ UNCHANGED <<X, prev, ret>>

NextPWM ==
  /\ cv.kind = PWM /\ gen.pc \in {"created", "suspended"}
  /\ LET r == PWMResume(cv, X, gen)
     IN  /\ gen' = r.gen
         /\ out' = out \o r.yield
         /\ err' = r.err
  /\ call' = [op |-> "next"]
  /\ UNCHANGED <<cv, X, prev, ret>>

---------------------------------------------------------------------------
(* Specifications *)

\* a second split(data) on the same instance and the same dataset, once the
\* first generator is exhausted; what the first one yielded is kept aside
SplitPWMAgain ==
  /\ cv.kind = PWM /\ gen.pc = "done" /\ ~prev.taken
  /\ prev' = [taken |-> TRUE, out |-> out]
  /\ call' = [op |-> "split"]
  /\ gen' = [NoGen EXCEPT !.pc = "created"]
  /\ out' = <<>>
  /\ UNCHANGED <<cv, X, err, ret>>

\* the non-decreasing prediction-time columns of 1 .. n rows
SortedColumns(n) ==
  {c \in SeqsUpTo(n, TimeValues) : c # <<>> /\ is_monotonic_increasing(c)}

\* the arrays of distinct positions of a dataset of n rows, in increasing order
PositionArrays(n) == {SortedSeq(S) : S \in SUBSET (0..(n - 1))}

\* the data of a direct call of purge: any rows resolve late
PurgeDatasets ==
  {[pred |-> c, eval |-> Lagged(c, late)] :
     c \in SortedColumns(MaxPolicyRows), late \in SUBSET (1..MaxPolicyRows)}

\* the data of a direct call of embargo, which reads one evaluation time:
\* no row resolves late, or every row does
EmbargoDatasets ==
  UNION {{[pred |-> c, eval |-> Lagged(c, late)] : late \in {{}, DOMAIN c}} :
           c \in SortedColumns(MaxPolicyRows)}

\* a direct call BaseTimeSeriesCV.purge(all_indices, train_indices,
\* test_fold_start, test_fold_end, pred_times, eval_times)
CallPurge ==
  /\ call = NoCall
  /\ \E data \in PurgeDatasets :
       \E train_indices \in PositionArrays(NumRows(data)),
          test_fold_start \in 0..(NumRows(data) - 1),
          test_fold_end \in 0..NumRows(data) :
         LET all_indices == arange(NumRows(data))
         IN  /\ call' = [op |-> "purge",
                         args |-> [all_indices |-> all_indices,
                                   train_indices |-> train_indices,
                                   test_fold_start |-> test_fold_start,
                                   test_fold_end |-> test_fold_end,
                                   pred_times |-> data.pred,
                                   eval_times |-> data.eval]]
             /\ ret' = [returned |-> TRUE,
                        value |-> purge(all_indices, train_indices, test_fold_start,
                                        test_fold_end, data.pred, data.eval)]
  /\ UNCHANGED <<cv, X, gen, out, err, prev>>

\* a direct call self.embargo(all_indices, train_indices, test_indices,
\* test_fold_end, pred_times, eval_times) on an instance whose embargo_td
\* is any delay of 0 .. MaxEmbargo
CallEmbargo ==
  /\ call = NoCall
  /\ \E data \in EmbargoDatasets :
       \E train_indices \in PositionArrays(NumRows(data)),
          test_indices \in PositionArrays(NumRows(data)),
          test_fold_end \in 0..NumRows(data),
          embargo_td \in 0..MaxEmbargo :
         LET all_indices == arange(NumRows(data))
             r == embargo(embargo_td, all_indices, train_indices, test_indices,
                          test_fold_end, data.pred, data.eval)
         IN  /\ call' = [op |-> "embargo",
                         args |-> [embargo_td |-> embargo_td,
                                   all_indices |-> all_indices,
                                   train_indices |-> train_indices,
                                   test_indices |-> test_indices,
                                   test_fold_end |-> test_fold_end,
                                   pred_times |-> data.pred,
                                   eval_times |-> data.eval]]
             /\ ret' = IF r.raises THEN NoReturn
                       ELSE [returned |-> TRUE, value |-> r.value]
             /\ err' = IF r.raises THEN ValueErrorAt("embargo") ELSE NoError
  /\ UNCHANGED <<cv, X, gen, out, prev>>

NextStepPolicy == CallPurge \/ CallEmbargo

SpecPolicy == Init /\ [][NextStepPolicy]_vars

NextStepWF == ConstructWF \/ SplitWF \/ NextWF \/ SplitWFAgain

SpecWF == Init /\ [][NextStepWF]_vars

NextStepPWM == ConstructPWM \/ SplitPWM \/ NextPWM \/ SplitPWMAgain

SpecPWM == Init /\ [][NextStepPWM]_vars

Next ==
  \/ ConstructWF \/ SplitWF \/ NextWF \/ SplitWFAgain
  \/ ConstructPWM \/ SplitPWM \/ NextPWM \/ SplitPWMAgain
  \/ CallPurge \/ CallEmbargo

Spec == Init /\ [][Next]_vars

---------------------------------------------------------------------------
(* Properties *)

\* the generator's body has run at least once
Resumed == gen.pc \in {"suspended", "done", "raised"}

\* some row's time is smaller than the previous row's
HasDescent(col) == \E k \in 1..(Len(col) - 1) : col[k + 1] < col[k]

\* C1: in every pair yielded by PurgedWalkForwardCV.split every train
\* position is strictly smaller than every test position, so the two are
\* disjoint.
C1_TrainBeforeTest ==
  cv.kind = WF =>
    \A k \in DOMAIN out :
      \A a \in SeqRange(out[k].train) : \A b \in SeqRange(out[k].test) : a < b

C1_Witness ==
  /\ cv.kind = WF /\ Len(out) >= 2
  /\ \A k \in DOMAIN out : out[k].train # <<>> /\ out[k].test # <<>>

\* C2: every train position j of a yielded pair has eval_times[j] strictly
\* before pred_times at the pair's first test position: a row whose label
\* resolves at or after the test window's first prediction time is purged,
\* on every split.
C2_TrainResolvedBeforeTest ==
  cv.kind = WF =>
    \A k \in DOMAIN out :
      \A j \in SeqRange(out[k].train) : X.eval[j + 1] < X.pred[out[k].test[1] + 1]

\* a row of the training window resolves late and is absent from the pair
C2_Witness ==
  /\ cv.kind = WF /\ gen.pc = "suspended"
  /\ LET pair == out[Len(out)]
         window == TrainWindow(cv, gen.fold_bounds, arange(NumRows(X)), gen.i)
     IN  /\ pair.train # <<>>
         /\ \E p \in SeqRange(window) :
              /\ X.eval[p + 1] >= X.pred[pair.test[1] + 1]
              /\ p \notin SeqRange(pair.train)

\* C3: on a dataset with non-decreasing prediction times and at least
\* n_splits rows, in both fold modes, a full iteration of split() ends
\* without raising and yields exactly get_n_splits() pairs.
C3_YieldsGetNSplits ==
  (/\ cv.kind = WF /\ gen.pc \in {"done", "raised"}
   /\ ~HasDescent(X.pred) /\ NumRows(X) >= cv.n_splits)
  => (gen.pc = "done" /\ Len(out) = cv.n_splits - cv.n_test_splits - cv.min_train_splits + 1)

\* the constraints on the constructor's arguments as the claim states them
C4_Accepted(a) ==
  LET max_train == IF a.max_train_splits = None THEN a.n_splits - a.n_test_splits
                   ELSE a.max_train_splits[1]
  IN  /\ a.n_splits > 1
      /\ 0 < a.n_test_splits /\ a.n_test_splits < a.n_splits - 1
      /\ 0 < a.min_train_splits /\ a.min_train_splits < a.n_splits - a.n_test_splits
      /\ 0 < max_train /\ max_train <= a.n_splits - a.n_test_splits
      /\ a.min_train_splits <= max_train

\* C4: constructing PurgedWalkForwardCV succeeds if and only if the
\* arguments satisfy the constraints; otherwise ValueError is raised in the
\* constructor and no instance exists, so every instance is well configured.
C4_ConstructionFailsFast ==
  /\ call.op = WF =>
       /\ cv.kind = WF <=> C4_Accepted(call.args)
       /\ cv.kind # WF => (cv = NoCV /\ err.type = "ValueError" /\ gen.pc = "none")
       /\ cv.kind = WF => err = NoError
  /\ cv.kind = WF =>
       C4_Accepted([n_splits |-> cv.n_splits, n_test_splits |-> cv.n_test_splits,
                    min_train_splits |-> cv.min_train_splits,
                    max_train_splits |-> Some(cv.max_train_splits)])

\* n_splits = 5 with n_test_splits = 5 has raised in the constructor
C4_Witness ==
  /\ call.op = WF /\ call.args = P2Args
  /\ cv = NoCV /\ err.type = "ValueError" /\ gen.pc = "none"

\* the splitter and the dataset of the end-to-end scenario
E2EScenario ==
  /\ cv.kind = WF /\ cv.n_splits = 10 /\ cv.n_test_splits = 1
  /\ cv.min_train_splits = 2 /\ cv.max_train_splits = 9 /\ ~cv.split_by_time
  /\ X = E2EData

\* C5 as stated: in the end-to-end scenario get_n_splits() is 7 and a full
\* iteration of split() yields 7 pairs.
C5_E2ESevenSplits ==
  E2EScenario =>
    /\ get_n_splits(cv) = 7
    /\ gen.pc = "done" => Len(out) = 7

\* C5 amended: in the end-to-end scenario get_n_splits() is 8
\* (10 - 1 - 2 + 1) and a full iteration of split() yields 8 pairs, one for
\* each i of 2..9, without raising.
C5_E2EEightSplits ==
  E2EScenario =>
    /\ get_n_splits(cv) = 8
    /\ gen.pc # "raised"
    /\ Len(out) <= 8
    /\ gen.pc = "done" => Len(out) = 8

C5_Witness == E2EScenario /\ gen.pc = "done" /\ Len(out) = 8

\* C6: for both splitters, a time column with a row smaller than the
\* previous one makes the iteration raise ValueError with no pair yielded; a
\* non-decreasing column, repeated timestamps included, passes this check.
C6_UnsortedRejected ==
  (cv.kind \in {WF, PWM} /\ Resumed) =>
    /\ HasDescent(X.pred) =>
         /\ gen.pc = "raised" /\ err.type = "ValueError" /\ out = <<>>
         /\ err.at \in {"_check_split_arguments", "monotonic"}
    /\ ~HasDescent(X.pred) => err.at \notin {"_check_split_arguments", "monotonic"}

\* the unsorted example was rejected, and a column with a repeated
\* timestamp is being iterated
C6_Witness ==
  \/ /\ cv.kind = PWM /\ X.pred = P7Column /\ gen.pc = "raised" /\ out = <<>>
  \/ /\ cv.kind = WF /\ X.pred = P7Column /\ gen.pc = "raised" /\ out = <<>>

\* C7: in every pair yielded by PredictionWindowManager.split, for every
\* configuration the constructor accepted, the train rows and the test rows
\* are disjoint.
C7_PWMDisjoint ==
  cv.kind = PWM =>
    \A k \in DOMAIN out : SeqRange(out[k].train) \cap SeqRange(out[k].test) = {}

\* q is the ceiling of x / d
C8_IsCeiling(q, x, d) == q * d >= x /\ (q - 1) * d < x

C8_Divisor(frequency) ==
  CASE frequency = "daily" -> 1
    [] frequency = "weekly" -> 5
    [] frequency = "monthly" -> 22

\* C8: after construction with a supported frequency each of gap_size,
\* initial_train_size and num_bars_between_training is the ceiling of its
\* argument divided by the frequency's divisor (daily 1, weekly 5, monthly
\* 22), the scaling applied once; 22, 220, 22 with monthly give 1, 10, 1.
C8_ScaledOnce ==
  (call.op = PWM /\ cv.kind = PWM) =>
    LET d == C8_Divisor(call.args.training_frequency)
    IN  /\ C8_IsCeiling(cv.gap_size, call.args.gap_size, d)
        /\ C8_IsCeiling(cv.initial_train_size, call.args.initial_train_size, d)
        /\ C8_IsCeiling(cv.num_bars_between_training, call.args.num_bars_between_training, d)
        /\ call.args = P6Args =>
             /\ cv.gap_size = 1
             /\ cv.initial_train_size = 10
             /\ cv.num_bars_between_training = 1

C8_Witness ==
  /\ call.op = PWM /\ call.args = P6Args /\ cv.kind = PWM
  /\ cv.initial_train_size = 10

C9_Supported == {"daily", "weekly", "monthly"}

\* C9: constructing PredictionWindowManager with a frequency other than
\* daily, weekly or monthly raises ValueError in the constructor: no instance
\* exists and split() is never reached with an unsupported frequency.
C9_UnsupportedFrequencyRaises ==
  /\ (call.op = PWM /\ call.args.training_frequency \notin C9_Supported) =>
       (cv = NoCV /\ err.type = "ValueError" /\ gen.pc = "none")
  /\ cv.kind = PWM => cv.training_frequency \in C9_Supported

C9_Witness ==
  /\ call.op = PWM /\ call.args.training_frequency = "yearly"
  /\ cv = NoCV /\ err.type = "ValueError"

\* C10: on a non-decreasing time column PredictionWindowManager.split
\* raises ValueError, before any pair, exactly when the scaled
\* initial_train_size exceeds the number of distinct timestamps.
C10_RaisesIffTooFewTimes ==
  (cv.kind = PWM /\ Resumed /\ ~HasDescent(X.pred)) =>
    ((gen.pc = "raised" /\ err.type = "ValueError" /\ out = <<>>)
       <=> cv.initial_train_size > Cardinality(SeqRange(X.pred)))

\* the number of distinct timestamps of the dataset being split
NumTimes == Cardinality(SeqRange(X.pred))

\* the split was entered on a dataset it does not reject: the time column is
\* non-decreasing and has at least initial_train_size distinct timestamps
PWMAcceptsData ==
  /\ cv.kind = PWM /\ Resumed
  /\ ~HasDescent(X.pred)
  /\ cv.initial_train_size <= NumTimes

\* the start offset of the k-th window (k counts from 1)
StartOffset(k) ==
  cv.initial_train_size + cv.gap_size + (k - 1) * cv.num_bars_between_training

\* how many offsets of the sequence initial_train_size + gap_size,
\* + num_bars_between_training, ... lie below the number of timestamps
C11_NumOffsets ==
  Cardinality({k \in 1..(NumTimes - StartOffset(1) + 1) : StartOffset(k) < NumTimes})

\* C11: with U distinct timestamps PredictionWindowManager.split yields one
\* pair per start offset s = initial_train_size + gap_size, then
\* + num_bars_between_training repeatedly, while s < U, in increasing order
\* of s and nothing else; when initial_train_size + gap_size >= U it yields
\* no pair and raises no error.
C11_OnePairPerOffset ==
  PWMAcceptsData =>
    /\ gen.pc # "raised" /\ err = NoError
    /\ Len(out) <= C11_NumOffsets
    /\ gen.pc = "done" => Len(out) = C11_NumOffsets
    /\ \A k \in DOMAIN out : out[k] = PWMPair(cv, X, StartOffset(k))
    /\ StartOffset(1) >= NumTimes => out = <<>>

\* the 0-based number of timestamp t among the distinct timestamps of a
\* non-decreasing column
C12_Number(t) == Cardinality({v \in SeqRange(X.pred) : v < t})

\* the rows (0-based positions) whose timestamp is one of distinct
\* timestamps number lo to hi
C12_RowsNumbered(lo, hi) ==
  {p \in 0..(NumRows(X) - 1) : C12_Number(X.pred[p + 1]) \in lo..hi}

\* the rows (0-based positions) that carry one of the yielded index labels
RowsLabelled(labels) ==
  {p \in 0..(NumRows(X) - 1) : X.index[p + 1] \in SeqRange(labels)}

\* the timestamps of a set of rows
C12_Times(rows) == {X.pred[p + 1] : p \in rows}

\* C12: for each start offset s yielded by PredictionWindowManager.split,
\* with train_end = s - gap_size, the test rows are exactly the rows of
\* distinct timestamps number s to s + num_bars_between_training - 1
\* (truncated at the last timestamp), the train rows exactly those of
\* timestamps number 0 (or max(train_end - rolling_window_size, 0) when
\* rolling) to train_end - 1, so exactly gap_size distinct timestamps lie
\* between the last train timestamp and the first test timestamp.
C12_ExactWindows ==
  cv.kind = PWM =>
    \A k \in DOMAIN out :
      LET s == StartOffset(k)
          train_end == s - cv.gap_size
          first == IF cv.rolling_window_size = 0
                   THEN 0
                   ELSE Max2(train_end - cv.rolling_window_size, 0)
          train == RowsLabelled(out[k].train)
          test == RowsLabelled(out[k].test)
      IN  /\ test = C12_RowsNumbered(s, Min2(s + cv.num_bars_between_training - 1, NumTimes - 1))
          /\ train = C12_RowsNumbered(first, train_end - 1)
          /\ (train # {} /\ test # {}) =>
               Cardinality({v \in SeqRange(X.pred) :
                              /\ \A t \in C12_Times(train) : t < v
                              /\ \A t \in C12_Times(test) : v < t}) = cv.gap_size

\* C13: the arrays yielded by PredictionWindowManager.split are 0-based row
\* positions into the dataset's row order for any row index the dataset
\* carries: selecting rows by position with a yielded array returns exactly
\* the rows of the window, the rows the array was read from.
C13_YieldsPositions ==
  cv.kind = PWM =>
    \A k \in DOMAIN out :
      /\ SeqRange(out[k].train) = RowsLabelled(out[k].train)
      /\ SeqRange(out[k].test) = RowsLabelled(out[k].test)

\* C14: no configuration error of PredictionWindowManager is deferred to
\* split(): for every configuration the constructor accepted, iterating
\* split() on a dataset with a non-decreasing time column and at least
\* initial_train_size distinct timestamps never raises.
C14_NoDeferredConfigError ==
  PWMAcceptsData => (gen.pc # "raised" /\ err = NoError)

\* a second iteration of split() over the same dataset repeats the first:
\* the same pairs in the same order, the same number of them, no error
C15_SecondRepeatsFirst ==
  prev.taken =>
    /\ gen.pc # "raised" /\ err = NoError
    /\ Len(out) <= Len(prev.out)
    /\ \A k \in DOMAIN out : out[k] = prev.out[k]
    /\ gen.pc = "done" => out = prev.out

\* a step of a split() iteration (a call of split, a resumption of its
\* generator) leaves every configuration field of the splitter as it was
C15_ConfigKept == cv # NoCV => cv' = cv

\* C15: for both splitters, iterating split() fully or partially leaves
\* every configuration field of the splitter unchanged, and two successive
\* complete iterations over the same dataset yield identical sequences of
\* pairs: no state is carried from one split() call to the next.
C15_SplitKeepsNoState == [](C15_SecondRepeatsFirst) /\ [][C15_ConfigKept]_vars

C15_Witness ==
  /\ prev.taken /\ gen.pc = "done"
  /\ cv.kind = PWM /\ call.op = "next"
  /\ Len(out) >= 2 /\ out = prev.out
  /\ cv.training_frequency = "weekly"

C15_WitnessWF ==
  /\ prev.taken /\ gen.pc = "done"
  /\ cv.kind = WF
  /\ Len(out) >= 2 /\ out = prev.out

\* the loop value of the k-th yielded pair (k counts from 1)
C16_Iteration(k) == cv.min_train_splits + k - 1

\* purge removes every training position of iteration i: the test window is
\* not empty and every row of the train window has its eval_time at or after
\* the test window's first prediction time
C16_FullyPurged(i) ==
  LET indices == arange(NumRows(X))
      train == TrainWindow(cv, gen.fold_bounds, indices, i)
      test == TestWindow(cv, gen.fold_bounds, indices, i)
  IN  /\ test # <<>>
      /\ \A j \in SeqRange(train) : X.eval[j + 1] >= X.pred[ColMin(test) + 1]

\* C16: when purge removes every training position of a fold,
\* PurgedWalkForwardCV.split yields that fold with an empty train array and
\* its unchanged test array, does not raise, and goes on to yield the
\* remaining folds.
C16_EmptyTrainYielded ==
  cv.kind = WF =>
    \A k \in DOMAIN out :
      C16_FullyPurged(C16_Iteration(k)) =>
        /\ out[k].train = <<>>
        /\ out[k].test = TestWindow(cv, gen.fold_bounds, arange(NumRows(X)), C16_Iteration(k))
        /\ gen.pc # "raised"
        /\ gen.pc = "done" => Len(out) = LastIteration(cv) - cv.min_train_splits + 1

\* a direct call of embargo has returned
EmbargoReturned == call.op = "embargo" /\ ret.returned

\* the number of rows with pred_time <= last_test_eval_time + embargo_td,
\* from the arguments of the call
MinTrainIndex ==
  LET a == call.args
      last == CHOOSE v \in SeqRange(a.test_indices) :
                /\ v <= a.test_fold_end
                /\ \A w \in SeqRange(a.test_indices) : w <= a.test_fold_end => w <= v
  IN  Cardinality({j \in DOMAIN a.pred_times :
                     a.pred_times[j] <= a.eval_times[last + 1] + a.embargo_td})

\* C17: for any inputs to embargo the returned train set contains no
\* position p with test_fold_end <= p < min_train_index: every training row
\* following the test fold within the embargo horizon is removed.
C17_EmbargoedRemoved ==
  EmbargoReturned =>
    \A p \in SeqRange(ret.value) :
      ~(call.args.test_fold_end <= p /\ p < MinTrainIndex)

PurgeReturned == call.op = "purge" /\ ret.returned

\* the train positions whose row resolves before the test fold's first
\* prediction time
C19_Resolved ==
  LET a == call.args
  IN  {j \in SeqRange(a.train_indices) :
         a.eval_times[j + 1] < a.pred_times[a.test_fold_start + 1]}

\* the train positions from test_fold_end on whose row, when test_fold_end
\* is a row, is predicted at or after that row's evaluation time
C19_Later ==
  LET a == call.args
  IN  {j \in SeqRange(a.train_indices) :
         /\ j >= a.test_fold_end
         /\ a.test_fold_end < Len(a.all_indices) =>
              a.pred_times[j + 1] >= a.eval_times[a.test_fold_end + 1]}

C20_Overlaps(r) ==
  LET a == call.args
  IN  /\ a.pred_times[r + 1] <= a.pred_times[a.test_fold_end + 1]
      /\ a.eval_times[r + 1] >= a.pred_times[a.test_fold_start + 1]

\* C20: for any train set handed to purge (positions before, inside or
\* after the test fold) over non-decreasing pred_times, no returned position
\* has an evaluation interval that intersects the test fold's prediction
\* interval.
C20_NoOverlapReturned ==
  (/\ PurgeReturned
   /\ call.args.test_fold_start <= call.args.test_fold_end
   /\ call.args.test_fold_end < Len(call.args.all_indices))
  => \A r \in SeqRange(ret.value) : ~C20_Overlaps(r)

\* the training window, before purge, of the k-th yielded pair
UnpurgedTrain(k) ==
  TrainWindow(cv, gen.fold_bounds, arange(NumRows(X)), C16_Iteration(k))

\* no two rows share a prediction time
StrictlyIncreasing(col) == \A k \in 1..(Len(col) - 1) : col[k] < col[k + 1]

\* C21 as stated: when every row has eval_time equal to pred_time and
\* pred_times is non-decreasing, the train set yielded by
\* PurgedWalkForwardCV.split equals the unpurged contiguous slice.
C21_NoLagNoPurge ==
  (cv.kind = WF /\ X.eval = X.pred) =>
    \A k \in DOMAIN out : out[k].train = UnpurgedTrain(k)

\* C21 amended: when every row has eval_time equal to pred_time, the train
\* set yielded by PurgedWalkForwardCV.split is the unpurged slice without the
\* rows whose pred_time equals the test window's first pred_time; it equals
\* the unpurged slice when pred_times is strictly increasing.
C21_NoLagPurgesTiesOnly ==
  (cv.kind = WF /\ X.eval = X.pred) =>
    \A k \in DOMAIN out :
      /\ out[k].train =
           SortedSeq({j \in SeqRange(UnpurgedTrain(k)) :
                        X.pred[j + 1] < X.pred[out[k].test[1] + 1]})
      /\ StrictlyIncreasing(X.pred) => out[k].train = UnpurgedTrain(k)

C21_Witness ==
  /\ cv.kind = WF /\ X.eval = X.pred /\ StrictlyIncreasing(X.pred)
  /\ NumRows(X) <= MaxRows
  /\ Len(out) >= 2
  /\ \A k \in DOMAIN out : out[k].train # <<>> /\ out[k].train = UnpurgedTrain(k)

\* the positions of fold f (f counts from 0): from its boundary to just
\* before the next boundary, the last fold to the last row
Fold(f) ==
  LET first == gen.fold_bounds[f + 1]
      next == IF f + 1 < cv.n_splits THEN gen.fold_bounds[f + 2] ELSE NumRows(X)
  IN  {p \in 0..(NumRows(X) - 1) : first <= p /\ p < next}

\* the positions of folds lo .. hi
Folds(lo, hi) == UNION {Fold(f) : f \in lo..hi}

\* C22: for iteration i of PurgedWalkForwardCV.split the training window
\* before purge is the contiguous range fold_bounds[max(0, i -
\* max_train_splits)] .. fold_bounds[i] (exclusive), exactly min(i,
\* max_train_splits) whole folds ending just before the test window: never
\* more than max_train_splits folds, and exactly min_train_splits folds at
\* the first iteration; what is yielded is that window after purge.
C22_TrainWindowCapped ==
  cv.kind = WF =>
    \A k \in DOMAIN out :
      LET i == C16_Iteration(k)
          width == Min2(i, cv.max_train_splits)
          window == UnpurgedTrain(k)
      IN  /\ SeqRange(window) = Folds(i - width, i - 1)
          /\ window = SortedSeq(SeqRange(window))
          /\ \A p \in SeqRange(window) : p < out[k].test[1]
          /\ window # <<>> => window[Len(window)] = out[k].test[1] - 1
          /\ width <= cv.max_train_splits
          /\ k = 1 => width = cv.min_train_splits
          /\ SeqRange(out[k].train) \subseteq SeqRange(window)
          /\ (X.eval = X.pred /\ StrictlyIncreasing(X.pred)) =>
               SeqRange(out[k].train) = Folds(i - width, i - 1)

\* the rolling-cap scenario on 100 rows: 2 folds of 10 rows at i = 2, 4
\* folds (positions 50 .. 89) at i = 9
C22_Witness ==
  /\ cv.kind = WF /\ call.op = "next" /\ X = E2EData
  /\ cv.n_splits = 10 /\ cv.max_train_splits = 4
  /\ Len(out) = 8
  /\ Len(out[1].train) = 20
  /\ out[8].train = [k \in 1..40 |-> 49 + k]

WFAcceptsData ==
  /\ cv.kind = WF /\ Resumed
  /\ ~HasDescent(X.pred)
  /\ NumRows(X) >= cv.n_splits

\* C24: with split_by_time false and N >= n_splits rows,
\* _compute_fold_bounds returns n_splits boundaries, boundary k being
\* k * floor(N / n_splits) + min(k, N mod n_splits): the folds are
\* contiguous, cover [0, N), differ in size by at most one, and the first
\* N mod n_splits folds are the larger ones.
C24_BalancedFolds ==
  (WFAcceptsData /\ ~cv.split_by_time) =>
    LET N == NumRows(X)
        n == cv.n_splits
    IN  /\ gen.fold_bounds = [k \in 1..n |-> (k - 1) * (N \div n) + Min2(k - 1, N % n)]
        /\ Folds(0, n - 1) = 0..(N - 1)
        /\ \A f \in 0..(n - 1) :
             Cardinality(Fold(f)) = (N \div n) + (IF f < N % n THEN 1 ELSE 0)
        /\ \A f, g \in 0..(n - 1) :
             f < g => \A p \in Fold(f) : \A q \in Fold(g) : p < q

\* 4 rows in 3 folds: the first fold takes the extra row
C24_Witness ==
  /\ cv.kind = WF /\ ~cv.split_by_time /\ gen.pc = "suspended"
  /\ NumRows(X) = 4 /\ cv.n_splits = 3
  /\ gen.fold_bounds = <<0, 2, 3>>

\* row position p is at or after the start time of time interval k:
\* prediction_time >= t_min + k * (t_max - t_min) / n_splits
C25_AtOrAfterStart(p, k) ==
  cv.n_splits * X.pred[p + 1]
    >= cv.n_splits * ColMin(X.pred) + k * (ColMax(X.pred) - ColMin(X.pred))

\* C25: with split_by_time true, _compute_fold_bounds returns n_splits
\* boundaries, boundary k being the smallest row position whose
\* prediction_time is >= t_min + k * (t_max - t_min) / n_splits, so
\* boundary 0 is position 0.
C25_TimeBounds ==
  (cv.kind = WF /\ Resumed /\ ~HasDescent(X.pred) /\ cv.split_by_time) =>
    /\ Len(gen.fold_bounds) = cv.n_splits
    /\ gen.fold_bounds[1] = 0
    /\ \A k \in 0..(cv.n_splits - 1) :
         LET b == gen.fold_bounds[k + 1]
         IN  /\ b \in 0..(NumRows(X) - 1)
             /\ C25_AtOrAfterStart(b, k)
             /\ \A q \in 0..(b - 1) : ~C25_AtOrAfterStart(q, k)

\* prediction times 0, 0, 1, 2 in three intervals starting at 0, 2/3, 4/3
C25_Witness ==
  /\ cv.kind = WF /\ cv.split_by_time /\ gen.pc = "suspended"
  /\ X.pred = <<0, 0, 1, 2>> /\ cv.n_splits = 3
  /\ gen.fold_bounds = <<0, 2, 3>>

\* C26: in both fold modes, for every dataset with non-decreasing prediction
\* times and at least n_splits rows, the fold boundaries are monotonically
\* increasing: fold_bounds[0] = 0 and fold_bounds[k] < fold_bounds[k+1] for
\* every k, so the n_splits folds are non-empty, contiguous and
\* non-overlapping and every test window is non-empty.
C26_BoundsIncreasing ==
  WFAcceptsData =>
    /\ gen.fold_bounds[1] = 0
    /\ \A k \in 1..(cv.n_splits - 1) : gen.fold_bounds[k] < gen.fold_bounds[k + 1]
    /\ \A f \in 0..(cv.n_splits - 1) : Fold(f) # {}
    /\ gen.pc # "raised"

\* C27: any error raised while iterating PurgedWalkForwardCV.split is raised
\* before the first pair is yielded: once one pair has been yielded the
\* iteration goes on to completion without raising, in both fold modes.
C27_ErrorsBeforeFirstPair ==
  (cv.kind = WF /\ gen.pc = "raised") => out = <<>>

\* the rows (0-based positions) of the k-th yielded test set
TestRows(k) == RowsLabelled(out[k].test)

RowsOfTime(t) == {p \in 0..(NumRows(X) - 1) : X.pred[p + 1] = t}

\* all the rows of a timestamp are in the set, or none is
Unseparated(rows) ==
  \A t \in SeqRange(X.pred) : RowsOfTime(t) \subseteq rows \/ RowsOfTime(t) \cap rows = {}

\* C29: in every pair yielded by PredictionWindowManager.split, rows that
\* share a timestamp are never separated: for each timestamp, all rows
\* carrying it are in the train set, or all are in the test set, or none is
\* in either.
C29_TimestampsKeptWhole ==
  cv.kind = PWM =>
    \A k \in DOMAIN out :
      /\ Unseparated(RowsLabelled(out[k].train))
      /\ Unseparated(RowsLabelled(out[k].test))
      /\ \A t \in SeqRange(X.pred) :
           \/ RowsOfTime(t) \subseteq RowsLabelled(out[k].train)
           \/ RowsOfTime(t) \subseteq RowsLabelled(out[k].test)
           \/ RowsOfTime(t) \cap (RowsLabelled(out[k].train) \cup RowsLabelled(out[k].test)) = {}

\* a pair whose train rows and whose test rows each hold a repeated timestamp
C29_Witness ==
  /\ cv.kind = PWM /\ out # <<>>
  /\ \E t, u \in SeqRange(X.pred) :
       /\ t # u
       /\ Cardinality(RowsOfTime(t)) >= 2 /\ Cardinality(RowsOfTime(u)) >= 2
       /\ RowsOfTime(t) \subseteq RowsLabelled(out[1].train)
       /\ RowsOfTime(u) \subseteq RowsLabelled(out[1].test)

\* C30: frequency scaling at construction of PredictionWindowManager changes
\* only gap_size, initial_train_size and num_bars_between_training:
\* rolling_window_size, time_column_name and training_frequency keep the
\* constructor's values for every frequency, so split() compares the
\* unscaled rolling_window_size with scaled bar counts.
C30_ScalingFrame ==
  /\ (call.op = PWM /\ cv.kind = PWM) =>
       /\ cv.rolling_window_size = call.args.rolling_window_size
       /\ cv.time_column_name = call.args.time_column_name
       /\ cv.training_frequency = call.args.training_frequency
       /\ DOMAIN cv = DOMAIN call.args \cup {"kind"}
  /\ (cv.kind = PWM /\ cv.gap_size >= 0 /\ cv.rolling_window_size # 0) =>
       \A k \in DOMAIN out :
         Cardinality(C12_Times(RowsLabelled(out[k].train)))
           = Min2(StartOffset(k) - cv.gap_size, cv.rolling_window_size)

\* a weekly manager built with rolling_window_size = 2, whose quotient by 5
\* would be 1, and sizes that the scaling changed
C30_Witness ==
  /\ call.op = PWM /\ cv.kind = PWM
  /\ call.args.training_frequency = "weekly"
  /\ call.args.rolling_window_size = 2 /\ cv.rolling_window_size = 2
  /\ cv.initial_train_size # call.args.initial_train_size

=============================================================================
